---- MODULE Spec2Model ----
(***************************************************************************)
(* Model of flask_solar_materials_app.py: the /create handler (line-item   *)
(* collector, INSERT, generate_pdf, UPDATE), the /delete handler and the   *)
(* generate_pdf renderer's file naming and quantity formatting.            *)
(*                                                                         *)
(* Text is modelled as a sequence of tokens.  A token is one character     *)
(* ("3", ".", "a") or one of the fixed field-name literals of the form     *)
(* ("qty_extra_", "code_extra_", ...), which are kept atomic: none of      *)
(* them overlaps itself or is produced by the other tokens, so searching   *)
(* for "qty_extra_" in a token sequence finds what str.split finds in the  *)
(* text.  The empty string is <<>>.                                        *)
(*                                                                         *)
(* A Python float is modelled by an integer number of tenths (25 is 2.5),  *)
(* which is exact for every quantity text the model submits (at most one   *)
(* fractional digit).                                                      *)
(***************************************************************************)
EXTENDS Integers, Sequences, FiniteSets, TLC

VARIABLES
    form,      \* form[r]: request.form of request r, a sequence of <<key, value>>
    pc,        \* pc[r]: where request r's create() call stands
    items,     \* items[r]: the local list  items  of create()
    list_id,   \* list_id[r]: cur.lastrowid of r's INSERT (0: no INSERT yet)
    pdf_path,  \* pdf_path[r]: what generate_pdf returned to r (<<>>: not yet)
    lists,     \* the table  lists : id -> row
    seq,       \* sqlite_sequence of lists: the largest id ever assigned
    pdfs,      \* the paths of the files written under PDF_FOLDER
    clock,     \* datetime.now(), in whole seconds
    render     \* the latest generate_pdf call: its arguments and its results

vars == <<form, pc, items, list_id, pdf_path, lists, seq, pdfs, clock, render>>

(***************************************************************************)
(* Bounds of the model.                                                    *)
(***************************************************************************)
MaxRows == 2     \* candidate rows (qty_extra_* fields) in a submitted form
NumReq == 2      \* concurrent /create requests
MaxClock == 1    \* the clock runs over 0..MaxClock seconds
MaxItems == 1    \* items in a list handed to generate_pdf directly

Req == 1..NumReq

(***************************************************************************)
(* Text helpers.                                                           *)
(***************************************************************************)
QTY_PREFIX == <<"qty_extra_">>
CODE_PREFIX == <<"code_extra_">>
NAME_PREFIX == <<"name_extra_">>
UNIT_PREFIX == <<"unit_extra_">>
CLIENT_KEY == <<"client">>
TECHNICIAN_KEY == <<"technician">>

Digit == <<"0", "1", "2", "3", "4", "5", "6", "7", "8", "9">>

IsDigit(c) == \E d \in 1..10 : Digit[d] = c

DigitVal(c) == (CHOOSE d \in 1..10 : Digit[d] = c) - 1

\* str.startswith
StartsWith(s, p) == Len(s) >= Len(p) /\ SubSeq(s, 1, Len(p)) = p

\* str.find: the first position where sep occurs in s, 0 when it does not
Find(s, sep) ==
    LET hits == {i \in 1..(Len(s) - Len(sep) + 1) : SubSeq(s, i, i + Len(sep) - 1) = sep}
    IN IF hits = {} THEN 0 ELSE CHOOSE i \in hits : \A j \in hits : i <= j

\* str.split(sep): the parts of s between the occurrences of sep, left to right
RECURSIVE Split(_, _)
Split(s, sep) ==
    LET i == Find(s, sep)
    IN IF i = 0 THEN <<s>>
       ELSE <<SubSeq(s, 1, i - 1)>> \o Split(SubSeq(s, i + Len(sep), Len(s)), sep)

\* str.replace(old, new) for one-character old and new
Replace(s, old, new) == [i \in 1..Len(s) |-> IF s[i] = old THEN new ELSE s[i]]

Abs(n) == IF n < 0 THEN -n ELSE n

\* str(n) of a non-negative int
RECURSIVE NatToStr(_)
NatToStr(n) == IF n < 10 THEN <<Digit[n + 1]>> ELSE NatToStr(n \div 10) \o <<Digit[(n % 10) + 1]>>

\* str(n) of an int
IntToStr(n) == IF n < 0 THEN <<"-">> \o NatToStr(-n) ELSE NatToStr(n)

\* the value of a non-empty run of digits
RECURSIVE DigitsVal(_)
DigitsVal(s) == IF Len(s) = 0 THEN 0 ELSE 10 * DigitsVal(SubSeq(s, 1, Len(s) - 1)) + DigitVal(s[Len(s)])

AllDigits(s) == Len(s) > 0 /\ \A i \in 1..Len(s) : IsDigit(s[i])

(***************************************************************************)
(* Python values held under an item's "qty" key.                           *)
(***************************************************************************)
PyFloat(n) == [t |-> "float", v |-> n]      \* n tenths
PyInt(n) == [t |-> "int", v |-> n]
PyStr(s) == [t |-> "str", v |-> s]
PyNone == [t |-> "none", v |-> 0]

Raised == [ok |-> FALSE, v |-> 0]
Value(n) == [ok |-> TRUE, v |-> n]

\* float(text): sign, digits, and at most one fractional digit after a point;
\* every other text raises ValueError.  The result is in tenths.
ParseFloat(s) ==
    LET neg == Len(s) > 0 /\ s[1] = "-"
        body == IF Len(s) > 0 /\ s[1] \in {"-", "+"} THEN Tail(s) ELSE s
        dot == Find(body, <<".">>)
        whole == IF dot = 0 THEN body ELSE SubSeq(body, 1, dot - 1)
        frac == IF dot = 0 THEN <<>> ELSE SubSeq(body, dot + 1, Len(body))
        mag == 10 * DigitsVal(whole) + (IF Len(frac) = 1 THEN DigitVal(frac[1]) ELSE 0)
    IN IF AllDigits(whole) /\ Len(frac) <= 1 /\ (Len(frac) = 0 \/ AllDigits(frac))
       THEN Value(IF neg THEN -mag ELSE mag)
       ELSE Raised

\* float(x) of a Python value: TypeError on None, ValueError on a bad text
ToFloat(x) ==
    CASE x.t = "float" -> Value(x.v)
      [] x.t = "int" -> Value(10 * x.v)
      [] x.t = "str" -> ParseFloat(x.v)
      [] OTHER -> Raised

\* repr of a float, as an f-string prints it: "2.5", "-0.5", "6.0"
FloatToStr(n) ==
    (IF n < 0 THEN <<"-">> ELSE <<>>) \o NatToStr(Abs(n) \div 10) \o <<".">> \o NatToStr(Abs(n) % 10)

\* str(x) of a Python value
ToStr(x) ==
    CASE x.t = "float" -> FloatToStr(x.v)
      [] x.t = "int" -> IntToStr(x.v)
      [] x.t = "str" -> x.v
      [] OTHER -> <<"N", "o", "n", "e">>

\* dict.get(key, default)
DictGet(d, key, default) == IF key \in DOMAIN d THEN d[key] ELSE default

(***************************************************************************)
(* request.form: a MultiDict, modelled by its fields in submission order.  *)
(***************************************************************************)
\* key in request.form
FormHas(f, key) == \E i \in 1..Len(f) : f[i][1] = key

\* request.form.get(key, default): the first value submitted under key
FormGet(f, key, default) ==
    IF FormHas(f, key)
    THEN f[CHOOSE i \in 1..Len(f) : f[i][1] = key /\ \A j \in 1..(i - 1) : f[j][1] # key][2]
    ELSE default

\* request.form.keys(): each key once, in the order of its first field
RECURSIVE FormKeysFrom(_, _)
FormKeysFrom(f, i) ==
    IF i > Len(f) THEN <<>>
    ELSE IF \E j \in 1..(i - 1) : f[j][1] = f[i][1] THEN FormKeysFrom(f, i + 1)
    ELSE <<f[i][1]>> \o FormKeysFrom(f, i + 1)

FormKeys(f) == FormKeysFrom(f, 1)

(***************************************************************************)
(* create(): the line-item collector.                                      *)
(***************************************************************************)
\* HeaderMissing with the technician read by request.form.get: only a
\* missing client aborts
HeaderMissingClientOnly(f) == ~FormHas(f, CLIENT_KEY)

\* request.form['client'], request.form['technician']: a missing key raises
\* BadRequestKeyError before anything else runs
HeaderMissing(f) == ~FormHas(f, CLIENT_KEY) \/ ~FormHas(f, TECHNICIAN_KEY)

\* unique_id = key.split("qty_extra_")[1]
UniqueId(key) == Split(key, QTY_PREFIX)[2]

\* QtyAccepted with >= for >
QtyAcceptedNonNegative(v) == v >= 0

\* float(qty) > 0, on the parsed value
QtyAccepted(v) == v > 0

\* the dict appended for one accepted quantity field
MakeItem(f, unique_id, v) ==
    [code |-> FormGet(f, CODE_PREFIX \o unique_id, <<>>),
     name |-> FormGet(f, NAME_PREFIX \o unique_id, <<>>),
     unit |-> FormGet(f, UNIT_PREFIX \o unique_id, <<>>),
     qty |-> PyFloat(v)]

\* the for loop over request.form.keys(); float(qty) of a non-empty text
\* that is no number raises ValueError, which nothing catches
RECURSIVE CollectLoop(_, _, _)
CollectLoop(f, keys, acc) ==
    IF keys = <<>> THEN [raised |-> FALSE, items |-> acc]
    ELSE LET key == Head(keys)
             qty == FormGet(f, key, <<>>)
             num == ParseFloat(qty)
         IN IF ~StartsWith(key, QTY_PREFIX) \/ qty = <<>>
            THEN CollectLoop(f, Tail(keys), acc)
            ELSE IF ~num.ok
            THEN [raised |-> TRUE, items |-> acc]
            ELSE IF QtyAccepted(num.v)
            THEN CollectLoop(f, Tail(keys), Append(acc, MakeItem(f, UniqueId(key), num.v)))
            ELSE CollectLoop(f, Tail(keys), acc)

Collect(f) == CollectLoop(f, FormKeys(f), <<>>)

(***************************************************************************)
(* The table lists (id INTEGER PRIMARY KEY AUTOINCREMENT).                 *)
(***************************************************************************)
\* NextRowId of a plain INTEGER PRIMARY KEY, without AUTOINCREMENT: one more
\* than the largest id now in the table
NextRowIdOfLargestRow(tbl, largest) ==
    IF DOMAIN tbl = {} THEN 1 ELSE (CHOOSE i \in DOMAIN tbl : \A j \in DOMAIN tbl : j <= i) + 1

\* the id an INSERT assigns: under AUTOINCREMENT one more than the largest
\* id the table ever held, so the id of a deleted row is not assigned again
NextRowId(tbl, largest) == largest + 1

\* INSERT INTO lists (...) VALUES (...); commit
InsertRow(tbl, id, row) == [i \in DOMAIN tbl \cup {id} |-> IF i = id THEN row ELSE tbl[i]]

\* UpdatePdfPath without its WHERE clause
UpdatePdfPathEveryRow(tbl, id, path) == [i \in DOMAIN tbl |-> [tbl[i] EXCEPT !.pdf_path = path]]

\* UPDATE lists SET pdf_path = ? WHERE id = ?; commit
UpdatePdfPath(tbl, id, path) ==
    [i \in DOMAIN tbl |-> IF i = id THEN [tbl[i] EXCEPT !.pdf_path = path] ELSE tbl[i]]

\* DELETE FROM lists WHERE id = ?; commit
DeleteRow(tbl, id) == [i \in DOMAIN tbl \ {id} |-> tbl[i]]

\* datetime.now().isoformat() and strftime('%Y-%m-%d_%H%M%S'): the second
IsoFormat(now) == NatToStr(now)

Strftime(now) == NatToStr(now)

(***************************************************************************)
(* generate_pdf.                                                           *)
(***************************************************************************)
\* filepath = PDF_FOLDER / f'lista_{list_id}_{now}.pdf'
PdfFilePath(id, now) ==
    <<"pdfs/", "lista_">> \o IntToStr(id) \o <<"_">> \o Strftime(now) \o <<".pdf">>

\* FormatQty without .replace('.', ',')
FormatQtyDecimalPoint(it) ==
    LET raw == DictGet(it, "qty", PyInt(0))
        q_val == ToFloat(raw)
    IN IF ~q_val.ok THEN ToStr(raw)
       ELSE IF q_val.v % 10 = 0 THEN IntToStr(q_val.v \div 10)
       ELSE FloatToStr(q_val.v)

\* the QTD cell of one item: the try / except around float(it.get('qty', 0))
FormatQty(it) ==
    LET raw == DictGet(it, "qty", PyInt(0))
        q_val == ToFloat(raw)
    IN IF ~q_val.ok THEN ToStr(raw)
       ELSE IF q_val.v % 10 = 0 THEN IntToStr(q_val.v \div 10)
       ELSE Replace(FloatToStr(q_val.v), ".", ",")

\* data: the header row, then one row per item
TableHeader == <<<<"CODIGO">>, <<"DESCRICAO">>, <<"QTD">>, <<"UN">>>>

TableData(its) ==
    <<TableHeader>> \o
    [k \in 1..Len(its) |->
        <<DictGet(its[k], "code", <<>>), DictGet(its[k], "name", <<"N/A">>),
          FormatQty(its[k]), DictGet(its[k], "unit", <<>>)>>]

\* one call of generate_pdf by caller `by` (a request, or 0): the file is
\* written at the path, whatever was there, and the path is returned
GeneratePdf(by, id, client, technician, its) ==
    LET filepath == PdfFilePath(id, clock)
    IN /\ pdfs' = pdfs \cup {filepath}
       /\ render' = [called |-> TRUE, by |-> by, list_id |-> id, client |-> client,
                     technician |-> technician, items |-> its, path |-> filepath,
                     table |-> TableData(its), fresh |-> filepath \notin pdfs]

NoRender ==
    [called |-> FALSE, by |-> 0, list_id |-> 0, client |-> <<>>, technician |-> <<>>,
     items |-> <<>>, path |-> <<>>, table |-> <<>>, fresh |-> TRUE]

(***************************************************************************)
(* The submissions the model draws from.  A candidate row is a quantity    *)
(* field qty_extra_<suffix> and those of its three siblings the form       *)
(* carries; the siblings' values name their kind and their suffix, so a    *)
(* value taken from another row's field shows.                             *)
(***************************************************************************)
Suffixes == {<<"1">>, <<"2">>, <<"1", "qty_extra_", "2">>}

QtyTexts == {<<>>, <<"a", "b", "c">>, <<"0">>, <<"-", "1">>, <<"3">>, <<"2", ".", "5">>}

Siblings == {"code", "name", "unit"}

Headers == {"client", "technician"}

RowFields(row, present) ==
    <<<<QTY_PREFIX \o row.s, row.q>>>>
    \o (IF "code" \in present THEN <<<<CODE_PREFIX \o row.s, <<"C">> \o row.s>>>> ELSE <<>>)
    \o (IF "name" \in present THEN <<<<NAME_PREFIX \o row.s, <<"N">> \o row.s>>>> ELSE <<>>)
    \o (IF "unit" \in present THEN <<<<UNIT_PREFIX \o row.s, <<"U">> \o row.s>>>> ELSE <<>>)

RECURSIVE RowsFields(_, _)
RowsFields(rows, present) ==
    IF rows = <<>> THEN <<>>
    ELSE RowFields(Head(rows), present) \o RowsFields(Tail(rows), present)

MkForm(hdr, present, rows) ==
    (IF "client" \in hdr THEN <<<<CLIENT_KEY, <<"Ana">>>>>> ELSE <<>>)
    \o (IF "technician" \in hdr THEN <<<<TECHNICIAN_KEY, <<"Rui">>>>>> ELSE <<>>)
    \o RowsFields(rows, present)

RowSpecs == [s : Suffixes, q : QtyTexts]

\* every form of at most MaxRows candidate rows
AllForms ==
    {MkForm(hdr, present, rows) :
        hdr \in SUBSET Headers, present \in SUBSET Siblings,
        rows \in UNION {[1..k -> RowSpecs] : k \in 0..MaxRows}}

\* the forms of the concurrent requests: one candidate row, accepted,
\* dropped or malformed, with or without the client field
ConcurrentForms ==
    {MkForm(hdr, Siblings, <<[s |-> <<"1">>, q |-> q]>>) :
        hdr \in {Headers, {"technician"}}, q \in {<<"3">>, <<"0">>, <<"a", "b", "c">>}}

\* the items handed to generate_pdf when it is called on stored data: any
\* Python value may sit under "qty", and any key may be missing
RenderQtys ==
    {PyFloat(60), PyFloat(25), PyFloat(-15), PyInt(3), PyStr(<<"b", "a", "d">>),
     PyStr(<<"6", ".", "0">>), PyNone}

RenderItems ==
    {[code |-> <<"C">>, name |-> <<"N">>, unit |-> <<"U">>, qty |-> q] : q \in RenderQtys}
    \cup {[code |-> <<"C">>, name |-> <<"N">>, unit |-> <<"U">>], [qty |-> PyFloat(60)]}

RenderLists == UNION {[1..k -> RenderItems] : k \in 0..MaxItems}

RenderIds == {1, 2}

(***************************************************************************)
(* The state after start-up: no request, an empty table, no file.          *)
(***************************************************************************)
Init ==
    /\ form = [r \in Req |-> <<>>]
    /\ pc = [r \in Req |-> "idle"]
    /\ items = [r \in Req |-> <<>>]
    /\ list_id = [r \in Req |-> 0]
    /\ pdf_path = [r \in Req |-> <<>>]
    /\ lists = <<>>
    /\ seq = 0
    /\ pdfs = {}
    /\ clock = 0
    /\ render = NoRender

(***************************************************************************)
(* create(), from the request to the committed INSERT.  The steps of one   *)
(* request between two commits are local to it, so they are one step.      *)
(***************************************************************************)
CreateBegin(r, f) ==
    /\ pc[r] = "idle"
    /\ form' = [form EXCEPT ![r] = f]
    /\ UNCHANGED <<pdf_path, pdfs, clock, render>>
    /\ IF HeaderMissing(f)
       THEN /\ pc' = [pc EXCEPT ![r] = "bad_request"]
            /\ UNCHANGED <<items, list_id, lists, seq>>
       ELSE LET got == Collect(f)
                id == NextRowId(lists, seq)
                row == [client |-> FormGet(f, CLIENT_KEY, <<>>),
                        technician |-> FormGet(f, TECHNICIAN_KEY, <<>>),
                        date |-> IsoFormat(clock), items |-> got.items, pdf_path |-> <<>>]
            IN IF got.raised
               THEN /\ pc' = [pc EXCEPT ![r] = "value_error"]
                    /\ UNCHANGED <<items, list_id, lists, seq>>
               ELSE IF got.items = <<>>
               THEN /\ pc' = [pc EXCEPT ![r] = "no_items"]
                    /\ UNCHANGED <<items, list_id, lists, seq>>
               ELSE /\ pc' = [pc EXCEPT ![r] = "render"]
                    /\ items' = [items EXCEPT ![r] = got.items]
                    /\ lists' = InsertRow(lists, id, row)
                    /\ seq' = id
                    /\ list_id' = [list_id EXCEPT ![r] = id]

\* pdf_path = generate_pdf(list_id, client, technician, items, ...)
CreateRender(r) ==
    /\ pc[r] = "render"
    /\ GeneratePdf(r, list_id[r], FormGet(form[r], CLIENT_KEY, <<>>),
                   FormGet(form[r], TECHNICIAN_KEY, <<>>), items[r])
    /\ pdf_path' = [pdf_path EXCEPT ![r] = PdfFilePath(list_id[r], clock)]
    /\ pc' = [pc EXCEPT ![r] = "update"]
    /\ UNCHANGED <<form, items, list_id, lists, seq, clock>>

\* doc.build raises (the file cannot be written): create() ends there
CreateRenderFails(r) ==
    /\ pc[r] = "render"
    /\ pc' = [pc EXCEPT ![r] = "render_error"]
    /\ UNCHANGED <<form, items, list_id, pdf_path, lists, seq, pdfs, clock, render>>

\* UPDATE lists SET pdf_path = ? WHERE id = ?; commit; redirect to history
CreateUpdate(r) ==
    /\ pc[r] = "update"
    /\ lists' = UpdatePdfPath(lists, list_id[r], pdf_path[r])
    /\ pc' = [pc EXCEPT ![r] = "done"]
    /\ UNCHANGED <<form, items, list_id, pdf_path, seq, pdfs, clock, render>>

\* delete(list_id)
Delete(id) ==
    /\ lists' = DeleteRow(lists, id)
    /\ UNCHANGED <<form, pc, items, list_id, pdf_path, seq, pdfs, clock, render>>

\* a second passes
Tick ==
    /\ clock < MaxClock
    /\ clock' = clock + 1
    /\ UNCHANGED <<form, pc, items, list_id, pdf_path, lists, seq, pdfs, render>>

\* generate_pdf called on its own
RenderCall(id, its) ==
    /\ GeneratePdf(0, id, <<"Ana">>, <<"Rui">>, its)
    /\ UNCHANGED <<form, pc, items, list_id, pdf_path, lists, seq, clock>>

(***************************************************************************)
(* Spec: concurrent /create requests, /delete requests and the clock.      *)
(***************************************************************************)
Next ==
    \/ \E r \in Req : pc[r] = "idle" /\ \E f \in ConcurrentForms : CreateBegin(r, f)
    \/ \E r \in Req : CreateRender(r)
    \/ \E r \in Req : CreateRenderFails(r)
    \/ \E r \in Req : CreateUpdate(r)
    \/ \E id \in Req : Delete(id)
    \/ Tick

Spec == Init /\ [][Next]_vars

(***************************************************************************)
(* SpecCollect: one /create request, over every form of AllForms.          *)
(***************************************************************************)
NextCollect ==
    \/ pc[1] = "idle" /\ \E f \in AllForms : CreateBegin(1, f)
    \/ CreateRender(1)
    \/ CreateRenderFails(1)
    \/ CreateUpdate(1)

SpecCollect == Init /\ [][NextCollect]_vars

(***************************************************************************)
(* SpecRender: generate_pdf called any number of times, on any record id   *)
(* and item list, as the clock runs.                                       *)
(***************************************************************************)
NextRender ==
    \/ \E id \in RenderIds, its \in RenderLists : RenderCall(id, its)
    \/ Tick

SpecRender == Init /\ [][NextRender]_vars

(***************************************************************************)
(* What the claims speak of, stated on the submitted form itself.          *)
(***************************************************************************)
Submitted(r) == pc[r] # "idle"

HasHeader(f) == FormHas(f, CLIENT_KEY) /\ FormHas(f, TECHNICIAN_KEY)

\* the collector loop of r ran to its end
LoopCompleted(r) == pc[r] \notin {"idle", "bad_request", "value_error"}

\* the quantity fields of a form, and the suffix token of one: the key
\* without its leading qty_extra_
IsQtyKey(key) == StartsWith(key, QTY_PREFIX)

QtyKeys(f) == {f[i][1] : i \in {j \in 1..Len(f) : IsQtyKey(f[j][1])}}

SuffixOf(key) == SubSeq(key, Len(QTY_PREFIX) + 1, Len(key))

\* a quantity text that is a number above zero
ValidQty(text) == ParseFloat(text).ok /\ ParseFloat(text).v > 0

ValidQtyKeys(f) == {key \in QtyKeys(f) : ValidQty(FormGet(f, key, <<>>))}

\* the LineItem the specification describes for a valid quantity field
LineItemOf(f, key) ==
    [code |-> FormGet(f, CODE_PREFIX \o SuffixOf(key), <<>>),
     name |-> FormGet(f, NAME_PREFIX \o SuffixOf(key), <<>>),
     unit |-> FormGet(f, UNIT_PREFIX \o SuffixOf(key), <<>>),
     qty |-> PyFloat(ParseFloat(FormGet(f, key, <<>>)).v)]

RECURSIVE LineItemsOf(_, _)
LineItemsOf(f, keys) ==
    IF keys = <<>> THEN <<>>
    ELSE (IF Head(keys) \in ValidQtyKeys(f) THEN <<LineItemOf(f, Head(keys))>> ELSE <<>>)
         \o LineItemsOf(f, Tail(keys))

AllPositive(its) ==
    \A k \in 1..Len(its) :
        "qty" \in DOMAIN its[k] /\ its[k].qty.t = "float" /\ its[k].qty.v > 0

\* the requests whose INSERT assigned id
CreatorsOf(id) == {r \in Req : list_id[r] = id}

(***************************************************************************)
(* C1: whenever the collector loop of create() completes, every LineItem   *)
(* it appended has qty > 0, so every item list that create() inserts into  *)
(* lists or passes to generate_pdf is non-empty with every qty > 0.        *)
(***************************************************************************)
C1_CollectedQtyPositive ==
    /\ \A r \in Req : LoopCompleted(r) => AllPositive(items[r])
    /\ \A r \in Req : list_id[r] # 0 => items[r] # <<>>
    /\ \A id \in DOMAIN lists : lists[id].items # <<>> /\ AllPositive(lists[id].items)
    /\ (render.called /\ render.by # 0) => render.items # <<>> /\ AllPositive(render.items)

\* a stored and rendered record of one item, from a form with two quantity
\* fields of which the other one was dropped
C1_Witness ==
    /\ pc[1] = "done"
    /\ Cardinality(QtyKeys(form[1])) = 2
    /\ Len(items[1]) = 1
    /\ list_id[1] \in DOMAIN lists
    /\ render.called /\ render.by = 1

(***************************************************************************)
(* C2: a quantity field whose value is empty, non-numeric, zero or         *)
(* negative is dropped silently: create() raises nothing for it, and the   *)
(* other candidates of the submission are still collected.  Stated of the  *)
(* submissions that carry client and technician, the ones the collector    *)
(* runs on.                                                                *)
(***************************************************************************)
C2_MalformedQuantityDropped ==
    \A r \in Req :
        Submitted(r) /\ HasHeader(form[r])
        => /\ pc[r] # "value_error"
           /\ Len(items[r]) = Cardinality(ValidQtyKeys(form[r]))

(***************************************************************************)
(* C3: a submission with no quantity field above zero ends in              *)
(* NoItemsSelected (the warning and the redirect to the entry form), with  *)
(* no INSERT, no generate_pdf call and no UPDATE.  Stated of the           *)
(* submissions that carry client and technician.                           *)
(***************************************************************************)
C3_NoItemsSelected ==
    \A r \in Req :
        Submitted(r) /\ HasHeader(form[r]) /\ ValidQtyKeys(form[r]) = {}
        => pc[r] = "no_items" /\ list_id[r] = 0 /\ pdf_path[r] = <<>>

(***************************************************************************)
(* C4: no call of generate_pdf returns the path of a file an earlier call  *)
(* wrote, also when the two calls have the same record id and fall in the  *)
(* same second.                                                            *)
(***************************************************************************)
C4_RenderPathFresh == render.called => render.fresh

(***************************************************************************)
(* C5: a record is inserted with an empty document_path, which stays       *)
(* empty until the renderer has returned and the UPDATE of the creating    *)
(* request has run; from then on it is the path the renderer returned, and *)
(* no step changes a field of the record: it can only be deleted.          *)
(***************************************************************************)
C5_RowState ==
    \A id \in DOMAIN lists :
        /\ CreatorsOf(id) # {}
        /\ \A r \in CreatorsOf(id) :
              /\ pc[r] \in {"render", "render_error", "update", "done"}
              /\ pc[r] # "done" => lists[id].pdf_path = <<>>
              /\ pc[r] = "done" =>
                    /\ lists[id].pdf_path # <<>>
                    /\ lists[id].pdf_path = pdf_path[r]
                    /\ lists[id].pdf_path \in pdfs

C5_RowStep ==
    /\ \A id \in DOMAIN lists' \ DOMAIN lists :
          /\ lists'[id].pdf_path = <<>>
          /\ \E r \in Req : pc[r] = "idle" /\ pc'[r] = "render" /\ list_id'[r] = id
    /\ \A id \in DOMAIN lists \cap DOMAIN lists' :
          \/ lists'[id] = lists[id]
          \/ /\ lists'[id] = [lists[id] EXCEPT !.pdf_path = lists'[id].pdf_path]
             /\ lists[id].pdf_path = <<>>
             /\ \E r \in CreatorsOf(id) :
                   pc[r] = "update" /\ pc'[r] = "done" /\ lists'[id].pdf_path = pdf_path[r]
    /\ \A r \in Req :
          /\ pc[r] = "render" => pc'[r] \in {"render", "update", "render_error"}
          /\ pc[r] = "update" => pc'[r] \in {"update", "done"}
          /\ pc[r] = "done" => pc'[r] = "done"

C5_InsertRenderUpdate == []C5_RowState /\ [][C5_RowStep]_vars

\* a record whose creating request has completed
C5_Witness ==
    \E r \in Req :
        /\ pc[r] = "done"
        /\ list_id[r] \in DOMAIN lists
        /\ lists[list_id[r]].pdf_path = pdf_path[r]
        /\ pdf_path[r] # <<>>

(***************************************************************************)
(* C6: a candidate whose quantity field holds a valid positive number      *)
(* yields a LineItem with all four fields, each sibling field that is      *)
(* absent giving the empty string and each one present its value.  Stated  *)
(* of the submissions that carry client and technician.                    *)
(***************************************************************************)
C6_MissingSiblingsDefault ==
    \A r \in Req :
        Submitted(r) /\ HasHeader(form[r])
        => \A key \in ValidQtyKeys(form[r]) :
              \E k \in 1..Len(items[r]) : items[r][k] = LineItemOf(form[r], key)

(***************************************************************************)
(* C7: the QTD cell of every row: a quantity that coerces to a whole       *)
(* number reads as that number without decimals, one that coerces to a     *)
(* non-whole number reads as that number with a decimal comma and no       *)
(* decimal point, and one that does not coerce is its own text.            *)
(***************************************************************************)
Contains(s, c) == \E i \in 1..Len(s) : s[i] = c

C7_QtyCell(it, cell) ==
    LET raw == DictGet(it, "qty", PyInt(0))
        num == ToFloat(raw)
    IN /\ (num.ok /\ num.v % 10 = 0) =>
              ~Contains(cell, ".") /\ ~Contains(cell, ",") /\ ParseFloat(cell) = num
       /\ (num.ok /\ num.v % 10 # 0) =>
              /\ Contains(cell, ",") /\ ~Contains(cell, ".")
              /\ ParseFloat(Replace(cell, ",", ".")) = num
       /\ ~num.ok => cell = ToStr(raw)
       /\ raw = PyFloat(60) => cell = <<"6">>
       /\ raw = PyFloat(25) => cell = <<"2", ",", "5">>
       /\ raw = PyStr(<<"b", "a", "d">>) => cell = <<"b", "a", "d">>

C7_QtyFormatting ==
    render.called =>
        /\ Len(render.table) = Len(render.items) + 1
        /\ \A k \in 1..Len(render.items) : C7_QtyCell(render.items[k], render.table[k + 1][3])

\* a rendered table with a non-whole quantity in it
C7_Witness ==
    /\ render.called
    /\ \E k \in 1..Len(render.items) :
          /\ "qty" \in DOMAIN render.items[k]
          /\ render.items[k].qty = PyFloat(25)
          /\ render.table[k + 1][3] = <<"2", ",", "5">>

(***************************************************************************)
(* C8: a submission without the client or without the technician field is  *)
(* aborted before items are collected, a record inserted or a document     *)
(* written; every record in lists comes from a form with both fields.      *)
(***************************************************************************)
C8_HeaderRequired ==
    /\ \A r \in Req :
          Submitted(r) /\ ~HasHeader(form[r])
          => pc[r] = "bad_request" /\ items[r] = <<>> /\ list_id[r] = 0 /\ pdf_path[r] = <<>>
    /\ \A id \in DOMAIN lists : \E r \in CreatorsOf(id) : HasHeader(form[r])
    /\ (render.called /\ render.by # 0) => HasHeader(form[render.by])

\* an aborted submission that carried a valid candidate
C8_Witness ==
    \E r \in Req :
        /\ pc[r] = "bad_request"
        /\ ~FormHas(form[r], TECHNICIAN_KEY)
        /\ ValidQtyKeys(form[r]) # {}
        /\ lists = <<>>

(***************************************************************************)
(* C9: when the collector loop completes, its items are the LineItems of   *)
(* the valid quantity fields, one per key and in key order, each with the  *)
(* siblings found under the key's own suffix, whatever the suffix is.      *)
(***************************************************************************)
C9_SiblingsBySuffix ==
    \A r \in Req :
        LoopCompleted(r) => items[r] = LineItemsOf(form[r], FormKeys(form[r]))

(***************************************************************************)
(* C10: under every interleaving of create() and delete() requests, the    *)
(* ids assigned to requests are pairwise distinct, a request's UPDATE      *)
(* changes no row but its own, the paths stored in distinct records (the   *)
(* empty placeholder of a record not yet rendered is no path) and those    *)
(* returned to distinct requests are pairwise distinct, and no render      *)
(* writes over a file.                                                     *)
(***************************************************************************)
C10_Distinct ==
    /\ \A r1, r2 \in Req :
          r1 # r2 /\ list_id[r1] # 0 => list_id[r1] # list_id[r2]
    /\ \A r1, r2 \in Req :
          r1 # r2 /\ pdf_path[r1] # <<>> => pdf_path[r1] # pdf_path[r2]
    /\ \A i, j \in DOMAIN lists :
          i # j /\ lists[i].pdf_path # <<>> => lists[i].pdf_path # lists[j].pdf_path
    /\ render.called => render.fresh

C10_UpdateStep ==
    \A r \in Req :
        pc[r] = "update" /\ pc'[r] = "done"
        => /\ DOMAIN lists' = DOMAIN lists
           /\ \A id \in DOMAIN lists \ {list_id[r]} : lists'[id] = lists[id]

C10_InsertStep ==
    \A r \in Req :
        pc[r] = "idle" /\ pc'[r] = "render"
        => list_id'[r] \notin DOMAIN lists /\ \A r2 \in Req : list_id[r2] # list_id'[r]

====
